---- MODULE Spec2Model ----
(***************************************************************************)
(* TaskData (plantCalendar/src/home/TaskData.js): the local task           *)
(* collection taskArray, reconciled with Google Tasks (the task-list       *)
(* service) and Firestore (the document store).                            *)
(*                                                                         *)
(* Every `await` of the source is a suspension point: the request is       *)
(* issued in one step and the continuation runs in a later step, with any  *)
(* steps of the other operations in between.  The code between two awaits  *)
(* runs to completion (one JavaScript job) and is one action.  Calls whose *)
(* promise the source does not await (the FirestoreHandle calls and        *)
(* completeGoogleTask) are requests put in flight: they take effect, or    *)
(* fail, in a later step and in any order.                                 *)
(*                                                                         *)
(* The undeclared loop variables i and j of the source are read as the     *)
(* Babel build of React Native runs them (sloppy mode: implicit globals);  *)
(* they are written and read within one job, so they carry no state.       *)
(***************************************************************************)
EXTENDS Integers, Sequences, FiniteSets, TLC

VARIABLES
    taskArray,          \* this.taskArray: sequence of task records
    gTasks,             \* task-list service: list id -> sequence of tasks
    docs,               \* document store: task id -> document or NoDoc
    pending,            \* requests issued without await, not yet settled
    init,               \* the initiate() call in progress
    create,             \* the createTask() call in progress
    update,             \* the updateTask() call in progress
    created,            \* number of ids the task-list service has assigned
    reportedCompleted,  \* ids the last finished getGoogleData saw completed
    failed,             \* the remote calls that have failed so far
    calls,              \* number of operations called so far
    settled,            \* the operation whose promise settled last, and how
    known,              \* the ids the caller has seen in taskArray
    view,               \* the ViewTaskModal on screen, if any
    job,                \* what the last job of a mutating operation did
    loaded              \* what initiate() returned last, and the services then

vars == <<taskArray, gTasks, docs, pending, init, create, update, created,
          reportedCompleted, failed, calls, settled, known, view, job,
          loaded>>

(***************************************************************************)
(* Bounds of the model.                                                    *)
(***************************************************************************)
MaxCreates == 1
MaxPending == 2
MaxFailures == 1
MaxCalls == 3
MaxSubmits == 2

(***************************************************************************)
(* JavaScript values.  Numbers are integers (whole hours); undefined, null  *)
(* and NaN in a numeric field are the three values below, which no         *)
(* arithmetic of the model reaches; in a string field undefined is the     *)
(* string below.  A Date object is written "Date(<ISO string>)".           *)
(***************************************************************************)
Undefined == "undefined"
NullNum == 0 - 1001
UndefinedNum == 0 - 1002
NaN == 0 - 1003

Truthy(s) == s # Undefined /\ s # ""

Min(a, b) == IF a <= b THEN a ELSE b

\* String.prototype.substring(from, to) for 0 <= from <= to
Substring(s, from, to) == SubSeq(s, from + 1, Min(to, Len(s)))

\* Date.prototype.toISOString
toISOString(date) == SubSeq(date, 6, Len(date) - 1)

(***************************************************************************)
(* The values the operations are called with.                              *)
(***************************************************************************)
DefaultList == "L1"
TaskLists == <<"L1", "L2">>
NewIds == <<"t3", "t4">>
UnknownId == "t9"
TaskIds == {"t1", "t2", UnknownId} \cup {NewIds[n] : n \in 1..MaxCreates}

DueDay1 == "2022-04-05T00:00:00.000Z"
DateA == "Date(2022-04-06T09:30:00.000Z)"
DateB == "Date(2022-04-07T17:23:42.000Z)"

CreateArgs ==
    { [name |-> "new", dueDate |-> DateA, priority |-> "low",
       estTimeToComplete |-> e] : e \in {NullNum, 10} }

UpdateArgs ==
    { [taskId |-> t, taskListId |-> "@default", name |-> "edited",
       dueDate |-> DateB, priority |-> "high", estTimeToComplete |-> 10,
       timeSpent |-> 4] : t \in TaskIds }

Doc1 == [name |-> "one", priority |-> "high", estTimeToComplete |-> 10,
         timeSpent |-> 4, completed |-> FALSE, dueTime |-> "T17:23:42"]

\* the document of a task that was given a due time, and whose due date
\* has since been removed in the task-list service
Doc2 == [name |-> "two", priority |-> "low", estTimeToComplete |-> NullNum,
         timeSpent |-> 0, completed |-> FALSE, dueTime |-> "T08:00:00"]

(***************************************************************************)
(* The task-list service (GoogleHandle and the two fetch URLs) and the     *)
(* document store (FirestoreHandle and the Firestore reference).  Their    *)
(* code is not part of the sources; they follow section 6 of the           *)
(* specification.                                                          *)
(***************************************************************************)
RECURSIVE IndexOfId(_, _, _)
IndexOfId(items, id, n) ==
    IF n > Len(items) THEN 0
    ELSE IF items[n].id = id THEN n ELSE IndexOfId(items, id, n + 1)

ListOf(id) ==
    IF \E l \in DOMAIN gTasks : IndexOfId(gTasks[l], id, 1) > 0
    THEN CHOOSE l \in DOMAIN gTasks : IndexOfId(gTasks[l], id, 1) > 0
    ELSE Undefined

\* createTask(session, name, dueDate) -> taskId: a task with a due date only
ServiceCreate(id, name, dueDate) ==
    [gTasks EXCEPT ![DefaultList] = Append(@,
        [id |-> id, title |-> name, status |-> "needsAction",
         due |-> Substring(toISOString(dueDate), 0, 10) \o "T00:00:00.000Z"])]

\* updateTask(session, taskId, listId, name, dueDate) -> taskId
ServiceUpdate(id, name, dueDate) ==
    LET l == ListOf(id)
        n == IndexOfId(gTasks[l], id, 1)
    IN  [gTasks EXCEPT ![l][n].title = name,
                       ![l][n].due = Substring(toISOString(dueDate), 0, 10)
                                        \o "T00:00:00.000Z"]

\* completeTask(session, taskId, listId)
ServiceComplete(id) ==
    LET l == ListOf(id)
        n == IndexOfId(gTasks[l], id, 1)
    IN  [gTasks EXCEPT ![l][n].status = "completed"]

\* ensureTaskDocument(userKey, taskId, name): create-if-absent with defaults
DefaultDoc(name) ==
    [name |-> name, priority |-> "medium", estTimeToComplete |-> NullNum,
     timeSpent |-> 0, completed |-> FALSE, dueTime |-> Undefined]

\* mutant of EnsureTaskDocument: the default document is written whether or
\* not the task has one
EnsureTaskDocumentOverwriting(id, name) ==
    IF id \in DOMAIN docs THEN [docs EXCEPT ![id] = DefaultDoc(name)]
    ELSE docs @@ (id :> DefaultDoc(name))

EnsureTaskDocument(id, name) ==
    IF id \in DOMAIN docs THEN docs ELSE docs @@ (id :> DefaultDoc(name))

\* setTaskFields(userKey, taskId, name, priority, est, timeSpent, completed, dueDate)
SetTaskFields(r) ==
    LET d == [name |-> r.name, priority |-> r.priority,
              estTimeToComplete |-> r.estTimeToComplete,
              timeSpent |-> r.timeSpent, completed |-> r.completed,
              dueTime |-> Substring(toISOString(r.dueDate), 10, 19)]
    IN  IF r.id \in DOMAIN docs THEN [docs EXCEPT ![r.id] = d]
        ELSE docs @@ (r.id :> d)

\* setTimeSpent(userKey, taskId, timeSpent)
SetTimeSpent(id, timeSpent) ==
    IF id \in DOMAIN docs THEN [docs EXCEPT ![id].timeSpent = timeSpent]
    ELSE docs

\* setCompleted(userKey, taskId, completed)
SetCompleted(id, completed) ==
    IF id \in DOMAIN docs THEN [docs EXCEPT ![id].completed = completed]
    ELSE docs

(***************************************************************************)
(* TaskData: the pure parts.                                               *)
(***************************************************************************)
Get(rec, f) == IF f \in DOMAIN rec THEN rec[f] ELSE Undefined

\* mutant of IsOpen: the test of line 70 inverted
IsOpenInverted(task) == task.status = "completed"

\* getGoogleData, line 70: only save uncompleted tasks
IsOpen(task) == task.status # "completed"

\* getGoogleData, lines 71-76
NewTask(task, listId) ==
    [name |-> task.title, id |-> task.id, taskListId |-> listId,
     dueDay |-> task.due]

\* getGoogleData, lines 66-80: the open tasks of one list, in order
RECURSIVE OpenTasks(_, _)
OpenTasks(items, listId) ==
    IF items = <<>> THEN <<>>
    ELSE (IF IsOpen(Head(items)) THEN <<NewTask(Head(items), listId)>>
          ELSE <<>>) \o OpenTasks(Tail(items), listId)

\* the ids one fetch of a list reports with status "completed"
CompletedIds(items) ==
    {items[n].id : n \in {m \in 1..Len(items) : items[m].status = "completed"}}

\* findTask: the 0-based index of the first record with the id, or undefined
RECURSIVE findTaskFrom(_, _, _)
findTaskFrom(arr, taskId, i) ==
    IF i >= Len(arr) THEN UndefinedNum
    ELSE IF arr[i + 1].id = taskId THEN i
    ELSE findTaskFrom(arr, taskId, i + 1)

findTask(arr, taskId) == findTaskFrom(arr, taskId, 0)

\* Array.prototype.splice(start, 1) for start undefined or 0 <= start:
\* ToIntegerOrInfinity(undefined) is 0
Splice1(arr, start) ==
    LET from == IF start = UndefinedNum THEN 0 ELSE Min(start, Len(arr))
    IN  SubSeq(arr, 1, from) \o SubSeq(arr, from + 2, Len(arr))

\* mutant of DueDateAndTime: lines 133-136 left out, the due time is dropped
DueDateAndTimeWithoutDueTime(dueDay, dueTime) == dueDay

\* getFirebaseData, lines 130-136
DueDateAndTime(dueDay, dueTime) ==
    IF Truthy(dueTime) THEN Substring(dueDay, 0, 10) \o dueTime ELSE dueDay

\* mutant of Enriched: line 141 left out, the record keeps its dueDay
EnrichedKeepingDueDay(rec, taskFbData) ==
    [f \in DOMAIN rec \cup
           {"priority", "estTimeToComplete", "timeSpent", "dueDateAndTime"} |->
        CASE f = "priority" -> taskFbData.priority
          [] f = "estTimeToComplete" -> taskFbData.estTimeToComplete
          [] f = "timeSpent" -> taskFbData.timeSpent
          [] f = "dueDateAndTime" ->
                DueDateAndTime(Get(rec, "dueDay"), taskFbData.dueTime)
          [] OTHER -> rec[f]]

\* getFirebaseData, lines 130-141: record rec merged with its document
Enriched(rec, taskFbData) ==
    [f \in (DOMAIN rec \ {"dueDay"}) \cup
           {"priority", "estTimeToComplete", "timeSpent", "dueDateAndTime"} |->
        CASE f = "priority" -> taskFbData.priority
          [] f = "estTimeToComplete" -> taskFbData.estTimeToComplete
          [] f = "timeSpent" -> taskFbData.timeSpent
          [] f = "dueDateAndTime" ->
                DueDateAndTime(Get(rec, "dueDay"), taskFbData.dueTime)
          [] OTHER -> rec[f]]

\* getFirebaseData, lines 127-134: the TypeErrors of one iteration: the
\* document is missing (data() is undefined), the array has shrunk below i,
\* or substring is called on an undefined dueDay
EnrichThrows(arr, i, reqId) ==
    \/ reqId \notin DOMAIN docs
    \/ i >= Len(arr)
    \/ /\ Truthy(docs[reqId].dueTime)
       /\ Get(arr[i + 1], "dueDay") = Undefined

\* mutant of CreatedTask: line 183 left out, the record has no timeSpent
CreatedTaskWithoutTimeSpent(a, taskId) ==
    [name |-> a.name, id |-> taskId, taskListId |-> "@default",
     priority |-> a.priority, estTimeToComplete |-> a.estTimeToComplete,
     dueDateAndTime |-> a.dueDate]

\* createTask, lines 176-184
CreatedTask(a, taskId) ==
    [name |-> a.name, id |-> taskId, taskListId |-> "@default",
     priority |-> a.priority, estTimeToComplete |-> a.estTimeToComplete,
     dueDateAndTime |-> a.dueDate, timeSpent |-> 0]

\* mutant of UpdatedTask: line 219 stores the Date, not its ISO string
UpdatedTaskStoringDate(rec, a) ==
    [f \in DOMAIN rec \cup {"name", "dueDateAndTime", "priority",
                            "estTimeToComplete", "timeSpent"} |->
        CASE f = "name" -> a.name
          [] f = "dueDateAndTime" -> a.dueDate
          [] f = "priority" -> a.priority
          [] f = "estTimeToComplete" -> a.estTimeToComplete
          [] f = "timeSpent" -> a.timeSpent
          [] OTHER -> rec[f]]

\* updateTask, lines 218-222
UpdatedTask(rec, a) ==
    [f \in DOMAIN rec \cup {"name", "dueDateAndTime", "priority",
                            "estTimeToComplete", "timeSpent"} |->
        CASE f = "name" -> a.name
          [] f = "dueDateAndTime" -> toISOString(a.dueDate)
          [] f = "priority" -> a.priority
          [] f = "estTimeToComplete" -> a.estTimeToComplete
          [] f = "timeSpent" -> a.timeSpent
          [] OTHER -> rec[f]]

(***************************************************************************)
(* ViewTaskModal: the pure parts.  The text typed into the TextInput is a  *)
(* string; state.inputTimeSpent starts as the number 0, which parseFloat   *)
(* converts to the string "0" first, so it is held as that string.         *)
(***************************************************************************)
InputTexts == {"0", "1", "3", "8", "-6", "", "2h"}

Digit(c) ==
    CASE c = "0" -> 0 [] c = "1" -> 1 [] c = "2" -> 2 [] c = "3" -> 3
      [] c = "4" -> 4 [] c = "5" -> 5 [] c = "6" -> 6 [] c = "7" -> 7
      [] c = "8" -> 8 [] c = "9" -> 9 [] OTHER -> NaN

\* the value of the run of digits of s that starts at position n
RECURSIVE DigitsValue(_, _, _)
DigitsValue(s, n, acc) ==
    IF n > Len(s) \/ Digit(SubSeq(s, n, n)) = NaN THEN acc
    ELSE DigitsValue(s, n + 1, 10 * acc + Digit(SubSeq(s, n, n)))

\* parseFloat of a string of whole hours: an optional sign and the longest
\* run of digits; NaN when there is no digit
parseFloat(s) ==
    LET neg == Len(s) >= 1 /\ SubSeq(s, 1, 1) = "-"
        from == IF neg THEN 2 ELSE 1
    IN  IF from > Len(s) \/ Digit(SubSeq(s, from, from)) = NaN THEN NaN
        ELSE IF neg THEN 0 - DigitsValue(s, from, 0)
        ELSE DigitsValue(s, from, 0)

\* parseFloat of a number, of null and of undefined
parseFloatOfNumber(x) == IF x \in {NullNum, UndefinedNum, NaN} THEN NaN ELSE x

\* the operators + and - and < of numbers: NaN propagates and compares false
Plus(a, b) == IF a = NaN \/ b = NaN THEN NaN ELSE a + b
Minus(a, b) == IF a = NaN \/ b = NaN THEN NaN ELSE a - b
LessThan(a, b) == a # NaN /\ b # NaN /\ a < b

\* addTimeSpent, line 40
NewTimeSpent(task, inputTimeSpent) ==
    Plus(parseFloatOfNumber(task.timeSpent), parseFloat(inputTimeSpent))

\* mutant of NewTimeLeft: lines 48-50 left out, the difference is not clamped
NewTimeLeftUnclamped(task, newTimeSpent) ==
    Minus(parseFloatOfNumber(task.estTimeToComplete),
          parseFloatOfNumber(newTimeSpent))

\* addTimeSpent, lines 46-50
NewTimeLeft(task, newTimeSpent) ==
    LET newTimeLeft == Minus(parseFloatOfNumber(task.estTimeToComplete),
                             parseFloatOfNumber(newTimeSpent))
    IN  IF LessThan(newTimeLeft, 0) THEN 0 ELSE newTimeLeft

\* mutant of dispTime: the time fields are shown whatever the estimate is
dispTimeAlways(task) == TRUE

\* render, line 64: task.estTimeToComplete != null
dispTime(task) == task.estTimeToComplete \notin {NullNum, UndefinedNum}

\* render, lines 96-125: the three time texts (null when not shown) and
\* whether the input and the SUBMIT button are on screen
Rendered(v) ==
    [estimate |-> IF dispTime(v.task) THEN v.task.estTimeToComplete
                  ELSE NullNum,
     timeSpent |-> IF dispTime(v.task) THEN v.displayTimeSpent ELSE NullNum,
     timeLeft |-> IF dispTime(v.task) THEN v.displayTimeLeft ELSE NullNum,
     submit |-> dispTime(v.task)]

\* the timeLeft of a record, derived when it is read: max(0, est - spent)
TimeLeft(est, spent) ==
    IF est \in {NullNum, UndefinedNum} THEN UndefinedNum
    ELSE IF est - spent < 0 THEN 0 ELSE est - spent

\* the route parameter `task` the modal is opened with for record rec
RouteTask(rec) ==
    [id |-> rec.id, estTimeToComplete |-> rec.estTimeToComplete,
     timeSpent |-> rec.timeSpent,
     timeLeft |-> TimeLeft(rec.estTimeToComplete, rec.timeSpent)]

NoTask ==
    [id |-> Undefined, estTimeToComplete |-> UndefinedNum,
     timeSpent |-> UndefinedNum, timeLeft |-> UndefinedNum]

\* no modal on screen; written is the sequence of the values handed to
\* updateTimeSpentInFirebase so far
ClosedView(written) ==
    [open |-> FALSE, task |-> NoTask, inputTimeSpent |-> "0",
     displayTimeSpent |-> UndefinedNum, displayTimeLeft |-> UndefinedNum,
     written |-> written]

(***************************************************************************)
(* The statements with an effect outside the job that the last job of a    *)
(* mutating operation executed are kept in job, in program order: the name *)
(* of each remote call it issued, and "taskArray" for its change of the    *)
(* collection.                                                             *)
(*                                                                         *)
(* Requests issued without await.  op names the operation that issued the  *)
(* request; local tells whether the job that issued it went on to change   *)
(* taskArray (it does so without waiting for the request).                 *)
(***************************************************************************)
InitFirebaseTaskData(id, name, op, local) ==
    [call |-> "initFirebaseTaskData", id |-> id, name |-> name, op |-> op,
     local |-> local]

UpdateFirebaseTaskData(id, a, spent, op, local) ==
    [call |-> "updateFirebaseTaskData", id |-> id, name |-> a.name,
     priority |-> a.priority, estTimeToComplete |-> a.estTimeToComplete,
     timeSpent |-> spent, completed |-> FALSE, dueDate |-> a.dueDate,
     op |-> op, local |-> local]

SetTaskCompleteInFirebase(id, op, local) ==
    [call |-> "setTaskCompleteInFirebase", id |-> id, completed |-> TRUE,
     op |-> op, local |-> local]

CompleteGoogleTask(id, op, local) ==
    [call |-> "completeGoogleTask", id |-> id, op |-> op, local |-> local]

UpdateTimeSpentInFirebase(id, timeSpent) ==
    [call |-> "updateTimeSpentInFirebase", id |-> id, timeSpent |-> timeSpent,
     op |-> "addTimeSpent", local |-> FALSE]

Failure(call, op, local) == [call |-> call, op |-> op, local |-> local]

CanFail == Cardinality(failed) < MaxFailures

Rejected == "rejected"

IdleInit ==
    [pc |-> "idle", temp |-> <<>>, seen |-> {}, li |-> 0, i |-> 0,
     reqId |-> Undefined]

IdleCall == [pc |-> "idle", args |-> <<>>, resp |-> Undefined]

\* how the promise an operation returned has settled
Fulfilled(op) == [op |-> op, state |-> "fulfilled", error |-> "none"]
RejectedWith(op, error) == [op |-> op, state |-> "rejected", error |-> error]

\* initiate() has not returned yet
NothingReturned ==
    [taskArray |-> <<>>, gTasks |-> <<>>, docs |-> <<>>, n |-> 0]

(***************************************************************************)
(* The state after construction (lines 16-23), with the two services in    *)
(* one of their starting states: t1 is open with a due date, t2 is open or *)
(* completed and has no due date; no task has a document, or t1 has, or    *)
(* both have.                                                              *)
(***************************************************************************)
InitialServices ==
    { (("L1" :> << [id |-> "t1", title |-> "one", status |-> "needsAction",
                    due |-> DueDay1] >>) @@
       ("L2" :> << [id |-> "t2", title |-> "two", status |-> st,
                    due |-> Undefined] >>)) :
      st \in {"needsAction", "completed"} }

InitialStores ==
    { <<>>, ("t1" :> Doc1), ("t1" :> Doc1) @@ ("t2" :> Doc2) }

Init ==
    /\ taskArray = <<>>
    /\ gTasks \in InitialServices
    /\ docs \in InitialStores
    /\ pending = {}
    /\ init = IdleInit
    /\ create = IdleCall
    /\ update = IdleCall
    /\ created = 0
    /\ reportedCompleted = {}
    /\ failed = {}
    /\ calls = 0
    /\ settled = [op |-> "none", state |-> "none", error |-> "none"]
    /\ known = {}
    /\ view = ClosedView(<<>>)
    /\ job = <<>>
    /\ loaded = NothingReturned

(***************************************************************************)
(* initiate: getGoogleData, then getFirebaseData.                          *)
(***************************************************************************)
\* initiate() is called; getGoogleData runs to its first await (line 49)
Initiate ==
    /\ init.pc = "idle"
    /\ calls < MaxCalls
    /\ calls' = calls + 1
    /\ init' = [IdleInit EXCEPT !.pc = "lists"]
    /\ UNCHANGED <<view, job, taskArray, gTasks, docs, pending, create,
                   update, created, reportedCompleted, failed, settled, known,
                   loaded>>

\* a fetch of getGoogleData fails: after the catch of lines 51 and 62 the
\* response is undefined and .json() throws a TypeError; or the get of line
\* 127 fails and the await rejects.  Either way initiate() rejects.
InitiateCallFails ==
    /\ init.pc \in {"lists", "tasks", "enrich"}
    /\ CanFail
    /\ failed' = failed \cup
           {Failure(IF init.pc = "enrich" THEN "get" ELSE "fetch",
                    "initiate", FALSE)}
    /\ init' = IdleInit
    /\ settled' = RejectedWith("initiate",
                      IF init.pc = "enrich" THEN "Remote" ELSE "TypeError")
    /\ UNCHANGED <<view, job, taskArray, gTasks, docs, pending, create,
                   update, created, reportedCompleted, calls, known, loaded>>

\* line 156: what a fulfilled initiate() returns, with the state of the two
\* services at that moment and the number of times it has returned
Returned ==
    IF init'.pc = "idle" /\ settled' = Fulfilled("initiate")
    THEN [taskArray |-> taskArray', gTasks |-> gTasks, docs |-> docs,
          n |-> loaded.n + 1]
    ELSE loaded

\* mutant of FinishLoad: line 82 adds the records to the collection instead
\* of replacing it
FinishLoadAppending(temp, seen) ==
    /\ taskArray' = taskArray \o temp
    /\ reportedCompleted' = seen
    /\ pending' = pending \cup
           {InitFirebaseTaskData(temp[n].id, temp[n].name, "initiate", FALSE) :
                n \in 1..Len(temp)}
    /\ Cardinality(pending') <= MaxPending
    /\ init' = IF Len(temp) = 0 THEN IdleInit
               ELSE [IdleInit EXCEPT !.pc = "enrich", !.reqId = temp[1].id]
    /\ settled' = IF Len(temp) = 0 THEN Fulfilled("initiate") ELSE settled
    /\ known' = known \cup {temp[n].id : n \in 1..Len(temp)}

\* lines 82 and 110-124: the collection is replaced, a document is requested
\* for every record, and the first document is asked for
FinishLoad(temp, seen) ==
    /\ taskArray' = temp
    /\ reportedCompleted' = seen
    /\ pending' = pending \cup
           {InitFirebaseTaskData(temp[n].id, temp[n].name, "initiate", FALSE) :
                n \in 1..Len(temp)}
    /\ Cardinality(pending') <= MaxPending
    /\ init' = IF Len(temp) = 0 THEN IdleInit
               ELSE [IdleInit EXCEPT !.pc = "enrich", !.reqId = temp[1].id]
    /\ settled' = IF Len(temp) = 0 THEN Fulfilled("initiate") ELSE settled
    /\ known' = known \cup {temp[n].id : n \in 1..Len(temp)}

\* lines 54-60: the task lists arrive; the tasks of the first are asked for
ListsArrive ==
    /\ init.pc = "lists"
    /\ IF Len(TaskLists) = 0
       THEN FinishLoad(<<>>, {})
       ELSE /\ init' = [init EXCEPT !.pc = "tasks", !.li = 1]
            /\ UNCHANGED <<taskArray, pending, reportedCompleted, settled,
                           known>>
    /\ UNCHANGED <<view, job, gTasks, docs, create, update, created, failed,
                   calls>>
    /\ loaded' = Returned

\* lines 64-82: the tasks of list li arrive; the next list is asked for, or
\* getGoogleData ends and getFirebaseData runs to its first await
TasksArrive ==
    /\ init.pc = "tasks"
    /\ LET listId == TaskLists[init.li]
           temp == init.temp \o OpenTasks(gTasks[listId], listId)
           seen == init.seen \cup CompletedIds(gTasks[listId])
       IN  IF init.li < Len(TaskLists)
           THEN /\ init' = [init EXCEPT !.temp = temp, !.seen = seen,
                                        !.li = init.li + 1]
                /\ UNCHANGED <<taskArray, pending, reportedCompleted, settled,
                               known>>
           ELSE FinishLoad(temp, seen)
    /\ UNCHANGED <<view, job, gTasks, docs, create, update, created, failed,
                   calls>>
    /\ loaded' = Returned

\* lines 127-142: the document asked for at index i arrives
DocumentArrives ==
    /\ init.pc = "enrich"
    /\ IF EnrichThrows(taskArray, init.i, init.reqId)
       THEN /\ init' = IdleInit
            /\ settled' = RejectedWith("initiate", "TypeError")
            /\ UNCHANGED taskArray
       ELSE /\ taskArray' = [taskArray EXCEPT ![init.i + 1] =
                                 Enriched(@, docs[init.reqId])]
            /\ init' = IF init.i + 1 < Len(taskArray)
                       THEN [init EXCEPT !.i = init.i + 1,
                                         !.reqId = taskArray[init.i + 2].id]
                       ELSE IdleInit
            /\ settled' = IF init.i + 1 < Len(taskArray) THEN settled
                          ELSE Fulfilled("initiate")
    /\ UNCHANGED <<view, job, gTasks, docs, pending, create, update, created,
                   reportedCompleted, failed, calls, known>>
    /\ loaded' = Returned

(***************************************************************************)
(* createTask                                                              *)
(***************************************************************************)
\* createTask(name, dueDate, priority, estTimeToComplete) is called and
\* awaits createGoogleTask (line 165)
CreateTask(a) ==
    /\ create.pc = "idle"
    /\ created < MaxCreates
    /\ calls < MaxCalls
    /\ calls' = calls + 1
    /\ create' = [pc |-> "called", args |-> a, resp |-> Undefined]
    /\ UNCHANGED <<view, job, taskArray, gTasks, docs, pending, init, update,
                   created, reportedCompleted, failed, settled, known,
                   loaded>>

\* the task-list service creates the task and answers with its id
CreateGoogleTaskServed ==
    /\ create.pc = "called"
    /\ gTasks' = ServiceCreate(NewIds[created + 1], create.args.name,
                               create.args.dueDate)
    /\ created' = created + 1
    /\ create' = [create EXCEPT !.pc = "responded",
                                !.resp = NewIds[created + 1]]
    /\ UNCHANGED <<view, job, taskArray, docs, pending, init, update,
                   reportedCompleted, failed, calls, settled, known, loaded>>

\* the creation call fails
CreateGoogleTaskFails ==
    /\ create.pc = "called"
    /\ CanFail
    /\ failed' = failed \cup {Failure("createGoogleTask", "createTask", FALSE)}
    /\ create' = [create EXCEPT !.pc = "responded", !.resp = Rejected]
    /\ UNCHANGED <<view, job, taskArray, gTasks, docs, pending, init, update,
                   created, reportedCompleted, calls, settled, known, loaded>>

\* mutant of CreateTaskResumes: the rejection of line 165 is swallowed and
\* createTask runs on with the id it was not given
CreateTaskResumesAfterRejection ==
    /\ create.pc = "responded"
    /\ pending' = pending \cup
          {InitFirebaseTaskData(create.resp, create.args.name,
                                "createTask", TRUE),
           UpdateFirebaseTaskData(create.resp, create.args, 0,
                                  "createTask", TRUE)}
    /\ Cardinality(pending') <= MaxPending
    /\ taskArray' = Append(taskArray, CreatedTask(create.args, create.resp))
    /\ settled' = Fulfilled("createTask")
    /\ known' = known \cup {create.resp}
    /\ job' = <<"initFirebaseTaskData", "updateFirebaseTaskData",
                "taskArray">>
    /\ create' = IdleCall
    /\ UNCHANGED <<view, gTasks, docs, init, update, created,
                   reportedCompleted, failed, calls, loaded>>

\* lines 165-185 after the await: a rejection ends createTask; otherwise the
\* two document writes are issued and the record is appended
CreateTaskResumes ==
    /\ create.pc = "responded"
    /\ IF create.resp = Rejected
       THEN /\ settled' = RejectedWith("createTask", "Remote")
            /\ job' = <<>>
            /\ UNCHANGED <<taskArray, pending, known>>
       ELSE /\ pending' = pending \cup
                  {InitFirebaseTaskData(create.resp, create.args.name,
                                        "createTask", TRUE),
                   UpdateFirebaseTaskData(create.resp, create.args, 0,
                                          "createTask", TRUE)}
            /\ Cardinality(pending') <= MaxPending
            /\ taskArray' = Append(taskArray,
                                   CreatedTask(create.args, create.resp))
            /\ settled' = Fulfilled("createTask")
            /\ known' = known \cup {create.resp}
            /\ job' = <<"initFirebaseTaskData", "updateFirebaseTaskData",
                        "taskArray">>
    /\ create' = IdleCall
    /\ UNCHANGED <<view, gTasks, docs, init, update, created,
                   reportedCompleted, failed, calls, loaded>>

(***************************************************************************)
(* updateTask                                                              *)
(***************************************************************************)
\* updateTask(...) is called for a task the caller has seen and awaits
\* updateGoogleTask (line 209)
UpdateTask(a) ==
    /\ update.pc = "idle"
    /\ a.taskId \in known
    /\ calls < MaxCalls
    /\ calls' = calls + 1
    /\ update' = [pc |-> "called", args |-> a, resp |-> Undefined]
    /\ UNCHANGED <<view, job, taskArray, gTasks, docs, pending, init, create,
                   created, reportedCompleted, failed, settled, known,
                   loaded>>

\* the task-list service updates the task and answers with its id
UpdateGoogleTaskServed ==
    /\ update.pc = "called"
    /\ gTasks' = ServiceUpdate(update.args.taskId, update.args.name,
                               update.args.dueDate)
    /\ update' = [update EXCEPT !.pc = "responded",
                                !.resp = update.args.taskId]
    /\ UNCHANGED <<view, job, taskArray, docs, pending, init, create, created,
                   reportedCompleted, failed, calls, settled, known, loaded>>

\* the update call fails
UpdateGoogleTaskFails ==
    /\ update.pc = "called"
    /\ CanFail
    /\ failed' = failed \cup {Failure("updateGoogleTask", "updateTask", FALSE)}
    /\ update' = [update EXCEPT !.pc = "responded", !.resp = Rejected]
    /\ UNCHANGED <<view, job, taskArray, gTasks, docs, pending, init, create,
                   created, reportedCompleted, calls, settled, known, loaded>>

\* lines 209-222 after the await: a rejection ends updateTask; otherwise the
\* document write is issued and the record findTask gives is overwritten;
\* for an undefined index line 218 throws a TypeError
UpdateTaskResumes ==
    /\ update.pc = "responded"
    /\ IF update.resp = Rejected
       THEN /\ settled' = RejectedWith("updateTask", "Remote")
            /\ job' = <<>>
            /\ UNCHANGED <<taskArray, pending>>
       ELSE LET i == findTask(taskArray, update.resp)
            IN  /\ pending' = pending \cup
                       {UpdateFirebaseTaskData(update.resp, update.args,
                            update.args.timeSpent, "updateTask",
                            i # UndefinedNum)}
                /\ Cardinality(pending') <= MaxPending
                /\ taskArray' = IF i = UndefinedNum THEN taskArray
                                ELSE [taskArray EXCEPT ![i + 1] =
                                         UpdatedTask(@, update.args)]
                /\ settled' = IF i = UndefinedNum
                              THEN RejectedWith("updateTask", "TypeError")
                              ELSE Fulfilled("updateTask")
                /\ job' = IF i = UndefinedNum
                          THEN <<"updateFirebaseTaskData">>
                          ELSE <<"updateFirebaseTaskData", "taskArray">>
    /\ update' = IdleCall
    /\ UNCHANGED <<view, gTasks, docs, init, create, created,
                   reportedCompleted, failed, calls, known, loaded>>

\* mutant of CompleteTask: the splice of line 241 moved before the two calls
CompleteTaskRemovingFirst(taskId) ==
    LET i == findTask(taskArray, taskId)
        spliced == Splice1(taskArray, i)
    IN  /\ calls < MaxCalls
        /\ calls' = calls + 1
        /\ pending' = pending \cup
               {SetTaskCompleteInFirebase(taskId, "completeTask",
                                          spliced # taskArray),
                CompleteGoogleTask(taskId, "completeTask",
                                   spliced # taskArray)}
        /\ Cardinality(pending') <= MaxPending
        /\ taskArray' = spliced
        /\ job' = <<"taskArray", "setTaskCompleteInFirebase",
                    "completeGoogleTask">>
        /\ settled' = Fulfilled("completeTask")
        /\ UNCHANGED <<view, gTasks, docs, init, create, update, created,
                       reportedCompleted, failed, known, loaded>>

(***************************************************************************)
(* completeTask: no await, so one job (lines 231-242).  It is called with  *)
(* an id the caller has seen, or with one that never was a task's.         *)
(***************************************************************************)
CompleteTask(taskId) ==
    LET i == findTask(taskArray, taskId)
        spliced == Splice1(taskArray, i)
    IN  /\ calls < MaxCalls
        /\ calls' = calls + 1
        /\ pending' = pending \cup
               {SetTaskCompleteInFirebase(taskId, "completeTask",
                                          spliced # taskArray),
                CompleteGoogleTask(taskId, "completeTask",
                                   spliced # taskArray)}
        /\ Cardinality(pending') <= MaxPending
        /\ taskArray' = spliced
        /\ job' = <<"setTaskCompleteInFirebase", "completeGoogleTask",
                    "taskArray">>
        /\ settled' = Fulfilled("completeTask")
        /\ UNCHANGED <<view, gTasks, docs, init, create, update, created,
                       reportedCompleted, failed, known, loaded>>

(***************************************************************************)
(* A request issued without await takes effect, or fails.                  *)
(***************************************************************************)
Settles(r) ==
    /\ r \in pending
    /\ pending' = pending \ {r}
    /\ docs' = CASE r.call = "initFirebaseTaskData" ->
                        EnsureTaskDocument(r.id, r.name)
                 [] r.call = "updateFirebaseTaskData" -> SetTaskFields(r)
                 [] r.call = "setTaskCompleteInFirebase" ->
                        SetCompleted(r.id, r.completed)
                 [] r.call = "updateTimeSpentInFirebase" ->
                        SetTimeSpent(r.id, r.timeSpent)
                 [] OTHER -> docs
    /\ gTasks' = IF r.call = "completeGoogleTask" /\ ListOf(r.id) # Undefined
                 THEN ServiceComplete(r.id) ELSE gTasks
    /\ UNCHANGED <<view, job, taskArray, init, create, update, created,
                   reportedCompleted, failed, calls, settled, known, loaded>>

Fails(r) ==
    /\ r \in pending
    /\ CanFail
    /\ pending' = pending \ {r}
    /\ failed' = failed \cup {Failure(r.call, r.op, r.local)}
    /\ UNCHANGED <<view, job, taskArray, gTasks, docs, init, create, update,
                   created, reportedCompleted, calls, settled, known, loaded>>

(***************************************************************************)
(* ViewTaskModal                                                           *)
(***************************************************************************)
\* the modal is opened on the record at index n of the collection: the
\* initial state of lines 9-16
Navigate(n) ==
    /\ ~view.open
    /\ view' = [open |-> TRUE, task |-> RouteTask(taskArray[n]),
                inputTimeSpent |-> "0",
                displayTimeSpent |-> RouteTask(taskArray[n]).timeSpent,
                displayTimeLeft |-> RouteTask(taskArray[n]).timeLeft,
                written |-> view.written]
    /\ UNCHANGED <<job, taskArray, gTasks, docs, pending, init, create,
                   update, created, reportedCompleted, failed, calls, settled,
                   known, loaded>>

\* lines 112-114: the user edits the TextInput, which is on screen
onChangeText(time) ==
    /\ view.open
    /\ Rendered(view).submit
    /\ view' = [view EXCEPT !.inputTimeSpent = time]
    /\ UNCHANGED <<job, taskArray, gTasks, docs, pending, init, create,
                   update, created, reportedCompleted, failed, calls, settled,
                   known, loaded>>

\* lines 36-55: the user presses SUBMIT, which is on screen
addTimeSpent ==
    /\ view.open
    /\ Rendered(view).submit
    /\ Len(view.written) < MaxSubmits
    /\ LET newTimeSpent == NewTimeSpent(view.task, view.inputTimeSpent)
       IN  /\ pending' = pending \cup
                  {UpdateTimeSpentInFirebase(view.task.id, newTimeSpent)}
           /\ Cardinality(pending') <= MaxPending
           /\ view' = [view EXCEPT
                  !.displayTimeLeft = NewTimeLeft(view.task, newTimeSpent),
                  !.displayTimeSpent = newTimeSpent,
                  !.inputTimeSpent = "0",
                  !.written = Append(@, [id |-> view.task.id,
                                         timeSpent |-> newTimeSpent])]
    /\ UNCHANGED <<job, taskArray, gTasks, docs, init, create, update,
                   created, reportedCompleted, failed, calls, settled, known,
                   loaded>>

\* line 73: the close button
goBack ==
    /\ view.open
    /\ view' = ClosedView(view.written)
    /\ UNCHANGED <<job, taskArray, gTasks, docs, pending, init, create,
                   update, created, reportedCompleted, failed, calls, settled,
                   known, loaded>>

(***************************************************************************)
(* TaskData on its own: the operations of the class, their continuations   *)
(* and the requests in flight.                                             *)
(***************************************************************************)
Next ==
    \/ Initiate
    \/ InitiateCallFails
    \/ ListsArrive
    \/ TasksArrive
    \/ DocumentArrives
    \/ \E a \in CreateArgs : CreateTask(a)
    \/ CreateGoogleTaskServed
    \/ CreateGoogleTaskFails
    \/ CreateTaskResumes
    \/ \E a \in UpdateArgs : UpdateTask(a)
    \/ UpdateGoogleTaskServed
    \/ UpdateGoogleTaskFails
    \/ UpdateTaskResumes
    \/ \E taskId \in known \cup {UnknownId} : CompleteTask(taskId)
    \/ \E r \in pending : Settles(r)
    \/ \E r \in pending : Fails(r)

Spec == Init /\ [][Next]_vars

(***************************************************************************)
(* The caller serialises the operations: one is called only when none is   *)
(* in progress and no request is outstanding (specification, section 5).   *)
(***************************************************************************)
Quiet ==
    /\ init.pc = "idle"
    /\ create.pc = "idle"
    /\ update.pc = "idle"
    /\ pending = {}

SerialNext == Next /\ (calls' # calls => Quiet)

SpecSerial == Init /\ [][SerialNext]_vars

(***************************************************************************)
(* The task view on a collection TaskData has built: one record as         *)
(* initiate() loads it (with the document it was merged with), as          *)
(* createTask appends it, or as updateTask overwrites it.                  *)
(***************************************************************************)
LoadedTask ==
    NewTask([id |-> "t1", title |-> "one", status |-> "needsAction",
             due |-> DueDay1], DefaultList)

FieldsDocument(a, spent) ==
    [name |-> a.name, priority |-> a.priority,
     estTimeToComplete |-> a.estTimeToComplete, timeSpent |-> spent,
     completed |-> FALSE,
     dueTime |-> Substring(toISOString(a.dueDate), 10, 19)]

ViewStarts ==
    {[rec |-> Enriched(LoadedTask, d), doc |-> d] :
        d \in {Doc1, DefaultDoc("one")}}
    \cup {[rec |-> CreatedTask(a, NewIds[1]), doc |-> FieldsDocument(a, 0)] :
             a \in CreateArgs}
    \cup {[rec |-> UpdatedTask(Enriched(LoadedTask, Doc1), a),
           doc |-> FieldsDocument(a, a.timeSpent)] :
             a \in {u \in UpdateArgs : u.taskId = "t1"}}

InitView ==
    /\ \E start \in ViewStarts :
          /\ taskArray = <<start.rec>>
          /\ docs = (start.rec.id :> start.doc)
          /\ known = {start.rec.id}
    /\ gTasks \in InitialServices
    /\ pending = {}
    /\ init = IdleInit
    /\ create = IdleCall
    /\ update = IdleCall
    /\ created = 0
    /\ reportedCompleted = {}
    /\ failed = {}
    /\ calls = 0
    /\ settled = [op |-> "none", state |-> "none", error |-> "none"]
    /\ view = ClosedView(<<>>)
    /\ job = <<>>
    /\ loaded = NothingReturned

ViewNext ==
    \/ \E n \in 1..Len(taskArray) : Navigate(n)
    \/ \E time \in InputTexts : onChangeText(time)
    \/ addTimeSpent
    \/ goBack
    \/ \E r \in pending : Settles(r)
    \/ \E r \in pending : Fails(r)

SpecView == InitView /\ [][ViewNext]_vars

(***************************************************************************)
(* Properties                                                              *)
(***************************************************************************)
Ids(arr) == {arr[n].id : n \in 1..Len(arr)}

\* the task the service holds under an id, and the ids it holds as open
ServiceTasks ==
    UNION {{gTasks[l][n] : n \in 1..Len(gTasks[l])} : l \in DOMAIN gTasks}

ServiceTask(id) == CHOOSE t \in ServiceTasks : t.id = id

OpenIds == {t.id : t \in {u \in ServiceTasks : u.status # "completed"}}

EnrichedFields ==
    {"name", "id", "taskListId", "priority", "estTimeToComplete", "timeSpent",
     "dueDateAndTime"}

\* record rec carries the fields of the document of its id, its due date is
\* the service's merged with the document's due time, and it has no dueDay
CarriesOwnDocument(rec) ==
    /\ DOMAIN rec = EnrichedFields
    /\ rec.id \in DOMAIN docs
    /\ rec.priority = docs[rec.id].priority
    /\ rec.estTimeToComplete = docs[rec.id].estTimeToComplete
    /\ rec.timeSpent = docs[rec.id].timeSpent
    /\ rec.dueDateAndTime =
          IF docs[rec.id].dueTime = Undefined THEN ServiceTask(rec.id).due
          ELSE SubSeq(ServiceTask(rec.id).due, 1, 10) \o docs[rec.id].dueTime

InitiateFulfils ==
    /\ init.pc # "idle"
    /\ init'.pc = "idle"
    /\ settled' = Fulfilled("initiate")

MergeCorrect ==
    /\ Ids(taskArray) = OpenIds
    /\ Len(taskArray) = Cardinality(OpenIds)
    /\ \A n \in 1..Len(taskArray) : CarriesOwnDocument(taskArray[n])

C2_CompletedExcluded ==
    \A n \in 1..Len(taskArray) : taskArray[n].id \notin reportedCompleted

C2_Witness ==
    /\ reportedCompleted = {"t2"}
    /\ taskArray # <<>>
    /\ settled.op \in {"createTask", "updateTask", "completeTask"}
    /\ settled.state = "fulfilled"

\* C3: no two records of taskArray have the same id
C3_UniqueIds ==
    \A m, n \in 1..Len(taskArray) : m # n => taskArray[m].id # taskArray[n].id

MutatingOps == {"createTask", "updateTask", "completeTask"}

FirstIndex(arr, id) ==
    CHOOSE n \in 1..Len(arr) :
        arr[n].id = id /\ \A m \in 1..(n - 1) : arr[m].id # id

WithoutRecord(arr, id) ==
    IF id \notin Ids(arr) THEN arr
    ELSE SubSeq(arr, 1, FirstIndex(arr, id) - 1) \o
         SubSeq(arr, FirstIndex(arr, id) + 1, Len(arr))

\* the step in which createTask, or updateTask, runs on after its await
CreateContinues == create.pc = "responded" /\ create'.pc = "idle"
UpdateContinues == update.pc = "responded" /\ update'.pc = "idle"

\* C4: completeTask and updateTask with an id that matches no record end in a
\* NotFound rejection
C4_NotFoundReported ==
    [][ /\ \A id \in TaskIds :
              (CompleteTask(id) /\ id \notin Ids(taskArray))
                  => settled' = RejectedWith("completeTask", "NotFound")
        /\ (UpdateContinues /\ update.resp # Rejected
                /\ update.resp \notin Ids(taskArray))
              => settled' = RejectedWith("updateTask", "NotFound") ]_vars

\* C5: completeTask(id) removes the record with that id and no other; with
\* no such record taskArray is unchanged
C5_RemovesOnlyMatching ==
    [][\A id \in TaskIds :
          CompleteTask(id) => taskArray' = WithoutRecord(taskArray, id)]_vars

\* C6: once createTask, updateTask or completeTask has changed taskArray,
\* none of its remote writes is still outstanding
C6_WritesCompleteFirst ==
    \A r \in pending : r.op \in MutatingOps => ~r.local

\* C7: when the creation call of createTask has failed, createTask issues no
\* document write and leaves taskArray as it is
C7_FailedCreateChangesNothing ==
    [][(CreateContinues /\ create.resp = Rejected)
          => UNCHANGED <<taskArray, pending, docs>>]_vars

C7_Witness ==
    /\ settled = RejectedWith("createTask", "Remote")
    /\ Failure("createGoogleTask", "createTask", FALSE) \in failed
    /\ taskArray # <<>>

\* C8: no remote call has failed for a createTask, updateTask or completeTask
\* that changed taskArray
C8_FailureLeavesCollection ==
    \A f \in failed : f.op \in MutatingOps => ~f.local

\* C9: a createTask whose creation call succeeded appends one record: the id
\* the service returned, the default list, timeSpent 0 and the arguments; the
\* records before it are unchanged
C9_CreateAppends ==
    [][(CreateContinues /\ create.resp # Rejected)
          => taskArray' = taskArray \o
                << [id |-> create.resp, taskListId |-> "@default",
                    timeSpent |-> 0, name |-> create.args.name,
                    priority |-> create.args.priority,
                    estTimeToComplete |-> create.args.estTimeToComplete,
                    dueDateAndTime |-> create.args.dueDate] >>]_vars

C9_Witness ==
    /\ settled = Fulfilled("createTask")
    /\ Len(taskArray) >= 2
    /\ taskArray[Len(taskArray)].id = NewIds[1]
    /\ taskArray[Len(taskArray)].estTimeToComplete = 10

\* C10: updateTask on an id of taskArray overwrites name, dueDateAndTime (the
\* ISO string of the date), priority, estTimeToComplete and timeSpent of the
\* record with that id; its other fields, the other records, the length and
\* the order are unchanged
C10_UpdateInPlace ==
    [][(UpdateContinues /\ update.resp # Rejected
            /\ update.resp \in Ids(taskArray))
          => LET n == FirstIndex(taskArray, update.resp)
                 a == update.args
             IN  /\ Len(taskArray') = Len(taskArray)
                 /\ \A m \in 1..Len(taskArray) :
                        m # n => taskArray'[m] = taskArray[m]
                 /\ taskArray'[n].name = a.name
                 /\ "Date(" \o taskArray'[n].dueDateAndTime \o ")" = a.dueDate
                 /\ taskArray'[n].priority = a.priority
                 /\ taskArray'[n].estTimeToComplete = a.estTimeToComplete
                 /\ taskArray'[n].timeSpent = a.timeSpent
                 /\ taskArray'[n].id = taskArray[n].id
                 /\ taskArray'[n].taskListId = taskArray[n].taskListId]_vars

C10_Witness ==
    /\ settled = Fulfilled("updateTask")
    /\ Len(taskArray) = 2
    /\ taskArray[1].name = "edited"
    /\ taskArray[1].dueDateAndTime = "2022-04-07T17:23:42.000Z"
    /\ taskArray[2].name = "two"

\* the step in which getFirebaseData merges the document it has read into the
\* record at its index
EnrichesRecord ==
    /\ DocumentArrives
    /\ ~EnrichThrows(taskArray, init.i, init.reqId)

\* C11: the dueDateAndTime getFirebaseData gives a record is the first 10
\* characters of its dueDay followed by the dueTime of the document read when
\* that document has a dueTime, and its dueDay unchanged when it has none
C11_DueDateMerge ==
    [][EnrichesRecord =>
          LET rec == taskArray[init.i + 1]
              dueTime == docs[init.reqId].dueTime
          IN  taskArray'[init.i + 1].dueDateAndTime =
                 IF dueTime # Undefined
                 THEN SubSeq(rec.dueDay, 1, 10) \o dueTime
                 ELSE Get(rec, "dueDay")]_vars

C11_Witness ==
    /\ settled = Fulfilled("initiate")
    /\ calls = 3
    /\ Len(taskArray) >= 1
    /\ taskArray[1].id = "t1"
    /\ Get(taskArray[1], "dueDateAndTime") = "2022-04-07T17:23:42"

\* the step in which a fetch of getGoogleData has failed
FetchFails ==
    /\ init.pc \in {"lists", "tasks"}
    /\ failed' = failed \cup {Failure("fetch", "initiate", FALSE)}
    /\ failed' # failed

\* C12: a failed fetch of the task lists, or of the tasks of one list, does
\* not make initiate() reject: the load goes on, or is fulfilled, with the
\* open tasks of the fetches that succeeded
C12_FetchFailureTolerated ==
    [][FetchFails =>
          /\ settled'.state # "rejected"
          /\ \/ init'.pc # "idle"
             \/ /\ settled' = Fulfilled("initiate")
                /\ taskArray' = init.temp]_vars

\* the step in which addTimeSpent runs
Submits == view'.written # view.written

\* C13: every addTimeSpent sets the time left shown to max(0, estimate - new
\* time spent) when the new time spent is a number, and never to a negative
\* number
C13_TimeLeftClamped ==
    [][Submits =>
          LET est == view.task.estTimeToComplete
              spent == view'.displayTimeSpent
              left == view'.displayTimeLeft
          IN  /\ left = NaN \/ left >= 0
              /\ spent # NaN =>
                    left = IF est - spent > 0 THEN est - spent ELSE 0]_vars

C13_Witness ==
    /\ view.open
    /\ view.task.estTimeToComplete = 10
    /\ view.displayTimeSpent = 12
    /\ view.displayTimeLeft = 0
    /\ Len(view.written) = 1

\* C14: of two successive values addTimeSpent hands to the document store for
\* one task, the later is not less than the earlier
C14_TimeSpentNeverDecreases ==
    \A k \in 2..Len(view.written) :
        view.written[k].id = view.written[k - 1].id
            => ~LessThan(view.written[k].timeSpent,
                         view.written[k - 1].timeSpent)

PositionIn(e, j) ==
    IF \E n \in 1..Len(j) : j[n] = e
    THEN CHOOSE n \in 1..Len(j) : j[n] = e
    ELSE 0

\* C16: completeTask first issues the call that sets the completed flag in the
\* document store, then the call that completes the task in the task-list
\* service, and only then removes the record from taskArray
C16_RemovesAfterIssuing ==
    [][\A id \in TaskIds :
          CompleteTask(id) =>
              /\ SetTaskCompleteInFirebase(id, "completeTask",
                                           taskArray' # taskArray) \in pending'
              /\ CompleteGoogleTask(id, "completeTask",
                                    taskArray' # taskArray) \in pending'
              /\ 0 < PositionIn("setTaskCompleteInFirebase", job')
              /\ PositionIn("setTaskCompleteInFirebase", job')
                    < PositionIn("completeGoogleTask", job')
              /\ PositionIn("completeGoogleTask", job')
                    < PositionIn("taskArray", job')]_vars

C16_Witness ==
    /\ settled = Fulfilled("completeTask")
    /\ job[3] = "taskArray"
    /\ taskArray = <<>>
    /\ "t1" \in known
    /\ CompleteGoogleTask("t1", "completeTask", TRUE) \in pending

\* C17: when the document getFirebaseData asked for arrives, the document
\* exists: the initFirebaseTaskData issued for the record has taken effect
C17_ReadFindsDocument ==
    [][DocumentArrives =>
          /\ init.reqId \in DOMAIN docs
          /\ \A r \in pending :
                ~(r.call = "initFirebaseTaskData" /\ r.op = "initiate"
                    /\ r.id = init.reqId)]_vars

\* createTask was the last operation to finish, nothing is in progress or in
\* flight, and none of its remote calls has failed
CreateTaskTookEffect ==
    /\ Quiet
    /\ settled = Fulfilled("createTask")
    /\ \A f \in failed : f.op # "createTask"

\* C18: once createTask has returned and its two document writes have taken
\* effect, in either order, the document of the new id holds the name, the
\* priority, the estimate and the due time createTask was given, timeSpent 0
\* and completed false (operations called one at a time)
C18_CreatedDocument ==
    CreateTaskTookEffect =>
        LET rec == taskArray[Len(taskArray)]
        IN  /\ rec.id \in DOMAIN docs
            /\ docs[rec.id] =
                  [name |-> rec.name, priority |-> rec.priority,
                   estTimeToComplete |-> rec.estTimeToComplete,
                   timeSpent |-> 0, completed |-> FALSE,
                   dueTime |-> SubSeq(rec.dueDateAndTime, 16, 24)]

C18_Witness ==
    /\ CreateTaskTookEffect
    /\ docs[NewIds[1]].estTimeToComplete = 10
    /\ docs[NewIds[1]].dueTime = "T09:30:00"
    /\ docs[NewIds[1]].name = "new"

\* record rec is the one createTask(a) made: as appended, or as a later load
\* rebuilt it from the two services
CarriesCreateArgs(rec, a) ==
    /\ rec.name = a.name
    /\ Get(rec, "priority") = a.priority
    /\ "estTimeToComplete" \in DOMAIN rec
    /\ rec.estTimeToComplete = a.estTimeToComplete
    /\ \/ Get(rec, "dueDateAndTime") = a.dueDate
       \/ Get(rec, "dueDateAndTime") = SubSeq(toISOString(a.dueDate), 1, 19)

\* initiate() and one createTask were called, the task was created, nothing
\* failed, and both have finished, initiate() last and fulfilled
LoadAndCreateFinished ==
    /\ calls = 2
    /\ NewIds[1] \in known
    /\ failed = {}
    /\ create.pc = "idle"
    /\ init.pc = "idle"
    /\ settled = Fulfilled("initiate")

\* C19: after initiate() and a createTask that ran during it have finished,
\* taskArray has a record of the created id with the name, priority, estimate
\* and due date createTask was given
C19_CreateDuringLoadKept ==
    LoadAndCreateFinished =>
        \E n \in 1..Len(taskArray) : \E a \in CreateArgs :
            /\ taskArray[n].id = NewIds[1]
            /\ CarriesCreateArgs(taskArray[n], a)

\* C20: the document getFirebaseData merges into a record is the document of
\* that record also when completeTask has run during the read, and when
\* initiate() is fulfilled every record has the fields of a document and no
\* dueDay
C20_CompleteDuringEnrichment ==
    [][ /\ EnrichesRecord => taskArray[init.i + 1].id = init.reqId
        /\ InitiateFulfils =>
              \A n \in 1..Len(taskArray') :
                  /\ "dueDay" \notin DOMAIN taskArray'[n]
                  /\ {"priority", "estTimeToComplete", "timeSpent",
                      "dueDateAndTime"} \subseteq DOMAIN taskArray'[n] ]_vars

\* C21: when no operation is in progress and no request is in flight, every
\* record of taskArray holds the timeSpent its document holds
C21_TimeSpentInStep ==
    Quiet =>
        \A n \in 1..Len(taskArray) :
            (taskArray[n].id \in DOMAIN docs
                /\ "timeSpent" \in DOMAIN taskArray[n])
              => taskArray[n].timeSpent = docs[taskArray[n].id].timeSpent

\* the document read for the record at the index of getFirebaseData arrives,
\* the record is the one it was read for, and its task has no due date
EnrichesUndatedRecord ==
    /\ DocumentArrives
    /\ init.reqId \in DOMAIN docs
    /\ init.i < Len(taskArray)
    /\ taskArray[init.i + 1].id = init.reqId
    /\ "dueDay" \in DOMAIN taskArray[init.i + 1]
    /\ taskArray[init.i + 1].dueDay = Undefined

\* C22: getFirebaseData merges the document of a record without due date
\* without an error, also when the document has a dueTime, and goes on to the
\* records after it
C22_UndatedRecordEnriched ==
    [][EnrichesUndatedRecord =>
          /\ settled' # RejectedWith("initiate", "TypeError")
          /\ "priority" \in DOMAIN taskArray'[init.i + 1]
          /\ \/ init'.pc = "enrich" /\ init'.i = init.i + 1
             \/ /\ init.i + 1 = Len(taskArray)
                /\ settled' = Fulfilled("initiate")]_vars

\* initiate() is fulfilled for the second time, and initiate() is all that has
\* been called
SecondLoadFulfils ==
    /\ InitiateFulfils
    /\ calls = 2
    /\ loaded.n = 1

\* C23: a second initiate(), with nothing else called since the first
\* returned, returns the records the first returned, in the same order, and
\* leaves every document as it was: the requests it has put in flight change
\* none either
C23_InitiateIdempotent ==
    [][SecondLoadFulfils =>
          /\ gTasks' = loaded.gTasks
          /\ taskArray' = loaded.taskArray
          /\ docs' = loaded.docs
          /\ \A r \in pending' :
                r.call = "initFirebaseTaskData" => r.id \in DOMAIN docs']_vars

C23_Witness ==
    /\ loaded.n = 2
    /\ calls = 2
    /\ Len(taskArray) = 2
    /\ taskArray = loaded.taskArray
    /\ taskArray[1].dueDateAndTime = "2022-04-05T17:23:42"

====
